---- MODULE Spec2Model ----
(***************************************************************************)
(* Model of src/ar488.py: the AR488 class, a thin wrapper that owns one    *)
(* pyserial handle (self.ser) and frames Prologix-style commands on it.    *)
(*                                                                         *)
(* Text is a sequence of code points, bytes are a sequence of 0..255.      *)
(* The serial line towards the host is one byte queue, `pending`: the     *)
(* response bytes the bridge has produced and the host has not consumed,   *)
(* in the host's input buffer or still on their way.  Every response byte  *)
(* is tagged with the number of the call whose frame elicited it.          *)
(***************************************************************************)
EXTENDS Integers, Sequences, FiniteSets, TLC

\* ---------------------------------------------------------------- bounds
MaxLen == 2          \* longest free-form message handed to write/query
MaxCalls == 3        \* number of operations called on one object

\* ------------------------------------------------------------ characters
CR == 13
LF == 10
PLUS == 43
SP == 32
MINUS == 45
ZERO == 48

\* "++addr"
AddrCmd == <<43, 43, 97, 100, 100, 114>>
\* DISPLAY:TEXT "50+50"
DisplayText ==
  <<68, 73, 83, 80, 76, 65, 89, 58, 84, 69, 88, 84, 32, 34, 53, 48, 43, 53, 48, 34>>

\* characters a caller puts in a message: the three control characters of
\* the protocol, an ordinary letter and a non-ASCII letter (e-acute)
PayloadChars == {CR, LF, PLUS, 97, 233}

RECURSIVE SeqsUpTo(_, _)
SeqsUpTo(S, n) ==
  IF n = 0 THEN {<<>>}
  ELSE LET shorter == SeqsUpTo(S, n - 1)
       IN shorter \cup {Append(s, c) : s \in shorter, c \in S}

Messages == SeqsUpTo(PayloadChars, MaxLen) \cup {AddrCmd, DisplayText}

\* the messages of call sequences: "++addr" and "*IDN?"
Idn == <<42, 73, 68, 78, 63>>
Commands == {AddrCmd, Idn}

Addresses == {-1, 0, 1, 9, 30, 31}

\* what the bridge may answer to one frame: nothing, "1\n", "\n", or a
\* line holding a byte that is not valid UTF-8
NoLine == <<>>
Lines == {<<49, LF>>, <<LF>>, <<255, LF>>}

\* ------------------------------------------------------- pure functions
\* "{}".format(n) for an integer n
RECURSIVE Str(_)
Str(n) ==
  IF n < 0 THEN <<MINUS>> \o Str(-n)
  ELSE IF n < 10 THEN <<ZERO + n>>
  ELSE Str(n \div 10) \o <<ZERO + (n % 10)>>

\* "{}\r".format(message)
Frame(message) == message \o <<CR>>

\* "++addr {}".format(address)
AddrMessage(address) == AddrCmd \o <<SP>> \o Str(address)

\* str.encode("ASCII"): defined on code points below 128, raises otherwise
CanEncodeASCII(text) == \A i \in 1..Len(text) : text[i] < 128
EncodeASCII(text) == [i \in 1..Len(text) |-> text[i] % 128]

\* bytes.decode("UTF-8") for one- and two-byte sequences; Bad marks a
\* UnicodeDecodeError
Bad == <<-1>>
RECURSIVE DecodeUTF8(_)
DecodeUTF8(bytes) ==
  IF bytes = <<>> THEN <<>>
  ELSE LET b == Head(bytes)
           rest == Tail(bytes)
       IN IF b < 128
          THEN LET d == DecodeUTF8(rest)
               IN IF d = Bad THEN Bad ELSE <<b>> \o d
          ELSE IF b >= 194 /\ b <= 223 /\ rest # <<>>
                  /\ Head(rest) >= 128 /\ Head(rest) <= 191
          THEN LET d == DecodeUTF8(Tail(rest))
               IN IF d = Bad THEN Bad
                  ELSE <<(b - 192) * 64 + (Head(rest) - 128)>> \o d
          ELSE Bad

Bytes(tagged) == [i \in 1..Len(tagged) |-> tagged[i].b]
Tags(tagged) == {tagged[i].tag : i \in 1..Len(tagged)}
Tagged(line, id) == [i \in 1..Len(line) |-> [b |-> line[i], tag |-> id]]

\* serial.Serial.readline() with a finite timeout: the bytes up to and
\* including the first LF, or, when none arrives before the deadline,
\* whatever was received
HasLF(buf) == \E i \in 1..Len(buf) : buf[i].b = LF
FirstLF(buf) ==
  CHOOSE i \in 1..Len(buf) :
    buf[i].b = LF /\ \A j \in 1..(i - 1) : buf[j].b # LF
\* variant: the line terminator is dropped from the returned line
readline_stripped(buf) ==
  IF HasLF(buf)
  THEN [raw |-> SubSeq(buf, 1, FirstLF(buf) - 1),
        rest |-> SubSeq(buf, FirstLF(buf) + 1, Len(buf)),
        timedOut |-> FALSE]
  ELSE [raw |-> buf, rest |-> <<>>, timedOut |-> TRUE]

readline(buf) ==
  IF HasLF(buf)
  THEN [raw |-> SubSeq(buf, 1, FirstLF(buf)),
        rest |-> SubSeq(buf, FirstLF(buf) + 1, Len(buf)),
        timedOut |-> FALSE]
  ELSE [raw |-> buf, rest |-> <<>>, timedOut |-> TRUE]

\* ---------------------------------------------------------------- state
VARIABLES
  pc,            \* "start", "failed", "constructed", "with", "exited", "disposed"
  ser,           \* self.ser: "unset", "open" or "closed"
  openAttempts,  \* calls of serial.Serial(...)
  closeCalls,    \* calls of self.ser.close()
  initRaised,    \* what __init__ raised to its caller
  delRaised,     \* what __del__ raised (reported and ignored by the runtime)
  exitCause,     \* how the with-block was left: "none", "normal", "error"
  pending,       \* tagged response bytes the host has not consumed
  nCalls,        \* operations called so far
  last           \* record of the last operation call

vars == <<pc, ser, openAttempts, closeCalls, initRaised, delRaised,
          exitCause, pending, nCalls, last>>

NoCall ==
  [op |-> "none", id |-> 0, msg |-> <<>>, frame |-> <<>>, io |-> <<>>,
   outcome |-> "ok", result |-> <<>>, tags |-> {}, timedOut |-> FALSE,
   pre |-> <<>>, elicited |-> NoLine]

Init ==
  /\ pc = "start"
  /\ ser = "unset"
  /\ openAttempts = 0
  /\ closeCalls = 0
  /\ initRaised = "none"
  /\ delRaised = "none"
  /\ exitCause = "none"
  /\ pending = <<>>
  /\ nCalls = 0
  /\ last = NoCall

\* ------------------------------------------------------------ lifecycle
\* AR488.__init__: one call of serial.Serial; any exception is replaced by
\* sys.exit(...), which raises SystemExit and leaves self.ser unassigned
AR488_init(openFails) ==
  /\ pc = "start"
  /\ openAttempts' = openAttempts + 1
  /\ IF openFails
     THEN /\ ser' = "unset"
          /\ initRaised' = "SystemExit"
          /\ pc' = "failed"
     ELSE /\ ser' = "open"
          /\ initRaised' = "none"
          /\ pc' = "constructed"
  /\ UNCHANGED <<closeCalls, delRaised, exitCause, pending, nCalls, last>>

\* AR488.__enter__
Enter ==
  /\ pc = "constructed"
  /\ pc' = "with"
  /\ UNCHANGED <<ser, openAttempts, closeCalls, initRaised, delRaised,
                 exitCause, pending, nCalls, last>>

\* variant: leaves the block without closing the port
Exit_noclose(err) ==
  /\ pc = "with"
  /\ err => last.outcome # "ok"
  /\ exitCause' = IF err THEN "error" ELSE "normal"
  /\ pc' = "exited"
  /\ UNCHANGED <<ser, closeCalls, openAttempts, initRaised, delRaised,
                 pending, nCalls, last>>

\* AR488.__exit__(exc_type, exc_value, exc_tb): err says that the block is
\* left by an exception of the last operation
Exit(err) ==
  /\ pc = "with"
  /\ err => last.outcome # "ok"
  /\ ser' = "closed"
  /\ closeCalls' = closeCalls + 1
  /\ exitCause' = IF err THEN "error" ELSE "normal"
  /\ pc' = "exited"
  /\ UNCHANGED <<openAttempts, initRaised, delRaised, pending, nCalls, last>>

\* variant: opens the port when it is missing, then closes it
Del_reopen ==
  /\ pc \in {"failed", "constructed", "exited"}
  /\ pc' = "disposed"
  /\ ser' = "closed"
  /\ closeCalls' = closeCalls + 1
  /\ openAttempts' = IF ser = "unset" THEN openAttempts + 1 ELSE openAttempts
  /\ delRaised' = "none"
  /\ UNCHANGED <<initRaised, exitCause, pending, nCalls, last>>

\* AR488.__del__: runs when the object is dropped, also for an object whose
\* __init__ raised; self.ser.close() fails with AttributeError when self.ser
\* was never assigned
Del ==
  /\ pc \in {"failed", "constructed", "exited"}
  /\ pc' = "disposed"
  /\ IF ser = "unset"
     THEN /\ delRaised' = "AttributeError"
          /\ UNCHANGED <<ser, closeCalls>>
     ELSE /\ ser' = "closed"
          /\ closeCalls' = closeCalls + 1
          /\ delRaised' = "none"
  /\ UNCHANGED <<openAttempts, initRaised, exitCause, pending, nCalls, last>>

\* ----------------------------------------------------------- operations
\* The effect of a method on the transport, as a record: st is the
\* transport state the method starts from.
NoFx(st) ==
  [outcome |-> "ok", frame |-> <<>>, io |-> <<>>, result |-> <<>>,
   tags |-> {}, timedOut |-> FALSE, pending |-> st.pending,
   elicited |-> NoLine]

\* AR488.write: format, encode, ser.write.  ioFail: the driver fails the
\* write; line: what the bridge answers to the frame
write_fx(st, message, ioFail, line) ==
  LET text == Frame(message)
  IN IF ~CanEncodeASCII(text)
     THEN [NoFx(st) EXCEPT !.outcome = "UnicodeEncodeError"]
     ELSE IF ioFail
     THEN [NoFx(st) EXCEPT !.outcome = "SerialException", !.io = <<"write">>]
     ELSE [NoFx(st) EXCEPT !.frame = EncodeASCII(text),
                           !.io = <<"write">>,
                           !.pending = st.pending \o Tagged(line, st.id),
                           !.elicited = line]

\* AR488.read: ser.readline() then decode.  k: how many of the pending
\* bytes reach the host before readline gives up
read_fx(st, k, ioFail) ==
  IF ioFail
  THEN [NoFx(st) EXCEPT !.outcome = "SerialException", !.io = <<"readline">>]
  ELSE LET n == IF k <= Len(st.pending) THEN k ELSE Len(st.pending)
           r == readline(SubSeq(st.pending, 1, n))
           text == DecodeUTF8(Bytes(r.raw))
       IN [NoFx(st) EXCEPT
             !.outcome = IF text = Bad THEN "UnicodeDecodeError" ELSE "ok",
             !.io = <<"readline">>,
             !.result = IF text = Bad THEN <<>> ELSE text,
             !.tags = Tags(r.raw),
             !.timedOut = r.timedOut,
             !.pending = r.rest \o SubSeq(st.pending, n + 1, Len(st.pending))]

\* variant: reads the line before writing the frame
query_fx_readfirst(st, message, ioFailW, line, k, ioFailR) ==
  LET r == read_fx(st, k, ioFailR)
  IN IF r.outcome # "ok" THEN r
     ELSE LET w == write_fx([st EXCEPT !.pending = r.pending],
                            message, ioFailW, line)
          IN [r EXCEPT !.outcome = w.outcome,
                       !.frame = w.frame,
                       !.io = r.io \o w.io,
                       !.pending = w.pending,
                       !.elicited = w.elicited]

\* AR488.query: self.write(message); return self.read()
query_fx(st, message, ioFailW, line, k, ioFailR) ==
  LET w == write_fx(st, message, ioFailW, line)
  IN IF w.outcome # "ok" THEN w
     ELSE LET r == read_fx([st EXCEPT !.pending = w.pending], k, ioFailR)
          IN [r EXCEPT !.frame = w.frame,
                       !.io = w.io \o r.io,
                       !.elicited = w.elicited]

Transport == [pending |-> pending, id |-> nCalls + 1]

\* one method call on the object: records the call and applies its effect
Call(op, message, fx) ==
  /\ pc \in {"constructed", "with"}
  /\ nCalls < MaxCalls
  /\ nCalls' = nCalls + 1
  /\ pending' = fx.pending
  /\ last' = [op |-> op, id |-> nCalls + 1, msg |-> message,
              frame |-> fx.frame, io |-> fx.io, outcome |-> fx.outcome,
              result |-> fx.result, tags |-> fx.tags,
              timedOut |-> fx.timedOut, pre |-> pending,
              elicited |-> fx.elicited]
  /\ UNCHANGED <<pc, ser, openAttempts, closeCalls, initRaised, delRaised,
                 exitCause>>

Arrivals == 0..(Len(pending) + 2)

write(message) ==
  \E ioFail \in BOOLEAN, line \in Lines \cup {NoLine} :
    Call("write", message, write_fx(Transport, message, ioFail, line))

read ==
  \E k \in Arrivals, ioFail \in BOOLEAN :
    Call("read", <<>>, read_fx(Transport, k, ioFail))

query(message) ==
  \E ioFailW \in BOOLEAN, line \in Lines \cup {NoLine},
     k \in Arrivals, ioFailR \in BOOLEAN :
    Call("query", message,
         query_fx(Transport, message, ioFailW, line, k, ioFailR))

\* AR488.set_address: self.write("++addr {}".format(address))
set_address(address) ==
  \E ioFail \in BOOLEAN, line \in Lines \cup {NoLine} :
    Call("set_address", AddrMessage(address),
         write_fx(Transport, AddrMessage(address), ioFail, line))

\* AR488.get_current_address: return self.query("++addr")
get_current_address ==
  \E ioFailW \in BOOLEAN, line \in Lines \cup {NoLine},
     k \in Arrivals, ioFailR \in BOOLEAN :
    Call("get_current_address", AddrCmd,
         query_fx(Transport, AddrCmd, ioFailW, line, k, ioFailR))

Lifecycle ==
  \/ \E openFails \in BOOLEAN : AR488_init(openFails)
  \/ Enter
  \/ \E err \in BOOLEAN : Exit(err)
  \/ Del

\* sequences of up to MaxCalls calls on one object
Next ==
  \/ Lifecycle
  \/ \E message \in Commands : write(message)
  \/ read
  \/ \E message \in Commands : query(message)
  \/ \E address \in Addresses : set_address(address)
  \/ get_current_address

Spec == Init /\ [][Next]_vars

\* one write or query of any message on a fresh object
FramerNext ==
  \/ Lifecycle
  \/ \E message \in Messages : nCalls = 0 /\ write(message)
  \/ \E message \in Messages : nCalls = 0 /\ query(message)
  \/ \E address \in Addresses : nCalls = 0 /\ set_address(address)
  \/ nCalls = 0 /\ get_current_address

FramerSpec == Init /\ [][FramerNext]_vars

\* =================================================== protocol vocabulary
\* the escaping rule of the wire protocol: CR, LF and '+' are prefixed by '+'
IsControl(c) == c \in {CR, LF, PLUS}
RECURSIVE Escape(_)
Escape(s) ==
  IF s = <<>> THEN <<>>
  ELSE (IF IsControl(Head(s)) THEN <<PLUS, Head(s)>> ELSE <<Head(s)>>)
       \o Escape(Tail(s))

\* the inverse: every pair '+' c becomes c
RECURSIVE Unescape(_)
Unescape(f) ==
  IF f = <<>> THEN <<>>
  ELSE IF Head(f) = PLUS /\ Len(f) >= 2
  THEN <<f[2]>> \o Unescape(Tail(Tail(f)))
  ELSE <<Head(f)>> \o Unescape(Tail(f))

StripTerminator(f) ==
  IF f # <<>> /\ f[Len(f)] = CR THEN SubSeq(f, 1, Len(f) - 1) ELSE f

\* position i of f is the second half of an escape pair
RECURSIVE EscapedAt(_, _)
EscapedAt(f, i) == i > 1 /\ f[i - 1] = PLUS /\ ~EscapedAt(f, i - 1)

UnescapedCRs(f) == {i \in 1..Len(f) : f[i] = CR /\ ~EscapedAt(f, i)}

\* "++" followed by one of the keywords addr, ver, auto, ifc, loc
Keywords ==
  {<<97, 100, 100, 114>>, <<118, 101, 114>>, <<97, 117, 116, 111>>,
   <<105, 102, 99>>, <<108, 111, 99>>}
IsBridgeCommand(s) ==
  \E kw \in Keywords :
    /\ Len(s) >= Len(kw) + 2
    /\ SubSeq(s, 1, Len(kw) + 2) = <<PLUS, PLUS>> \o kw

Wrote == last.frame # <<>>
IsQuery == last.op \in {"query", "get_current_address"}
IsSend == last.op \in {"write", "set_address"}

\* ================================================================ claims

\* C1 (as stated): every frame written by write/query for a message that is
\* not a bridge command is the message with each CR, LF and '+' preceded by
\* '+', followed by one CR; DISPLAY:TEXT "50+50" goes out as
\* DISPLAY:TEXT "50++50" CR.
C1_PayloadEscapedOnWire ==
  (Wrote /\ last.op \in {"write", "query"} /\ ~IsBridgeCommand(last.msg))
    => last.frame = Escape(last.msg) \o <<CR>>

\* C2 (as stated): stripping the terminator of the written frame and
\* replacing every escape pair by its second character gives back the
\* message handed to write.
C2_RoundTrip ==
  (Wrote /\ last.op \in {"write", "query"} /\ ~IsBridgeCommand(last.msg))
    => Unescape(StripTerminator(last.frame)) = last.msg

\* C3 (as stated): the written frame has exactly one unescaped CR, and it is
\* the last byte of the frame; the empty message is written as the single
\* byte CR.
C3_OneUnescapedTerminator ==
  (Wrote /\ last.op \in {"write", "query"} /\ ~IsBridgeCommand(last.msg))
    => /\ UnescapedCRs(last.frame) = {Len(last.frame)}
       /\ (last.msg = <<>> => last.frame = <<CR>>)

\* C4 (as stated): set_address with an address outside 1..30 is rejected
\* before anything is written; set_address(1) and set_address(30) write
\* "++addr 1" CR and "++addr 30" CR.
C4_AddressRangeChecked ==
  last.op = "set_address" =>
    /\ (last.msg \in {AddrMessage(a) : a \in Addresses \ (1..30)}
          => /\ last.io = <<>>
             /\ last.frame = <<>>
             /\ last.outcome = "ContractViolation")
    /\ (last.msg \in {AddrMessage(1), AddrMessage(30)} /\ last.outcome = "ok"
          => last.frame \in {<<43, 43, 97, 100, 100, 114, 32, 49, 13>>,
                             <<43, 43, 97, 100, 100, 114, 32, 51, 48, 13>>})

\* C5 (as stated): a query whose read meets no line terminator before the
\* read timeout ends with the outcome TimeoutError, which is neither a
\* normal return of a line nor a transport I/O error.
C5_TimeoutIsAnError ==
  (IsQuery /\ last.timedOut) => last.outcome = "TimeoutError"

\* C6: get_current_address against a transport that holds exactly the
\* bytes "1" LF and answers nothing more
C6_Preloaded ==
  /\ last.op = "get_current_address"
  /\ Bytes(last.pre) = <<49, LF>>
  /\ last.elicited = NoLine
  /\ last.outcome = "ok"
  /\ ~last.timedOut

\* C6 (as stated): that call writes "++addr" CR, consumes the one line and
\* returns "1", the line without its terminator.
C6_ReturnsLineWithoutTerminator ==
  C6_Preloaded =>
    /\ last.frame = AddrCmd \o <<CR>>
    /\ pending = <<>>
    /\ last.result = <<49>>

\* C6 (amended): that call writes "++addr" CR, performs one write and one
\* readline, consumes the one line and returns "1" LF, the decoded line
\* with its terminator.
C6_ReturnsLineWithTerminator ==
  C6_Preloaded =>
    /\ last.frame = AddrCmd \o <<CR>>
    /\ last.io = <<"write", "readline">>
    /\ pending = <<>>
    /\ last.result = <<49, LF>>

C6_Witness == C6_Preloaded /\ last.result = <<49, LF>> /\ pending = <<>>

\* C7: whenever the port was opened, it is closed once the with-block has
\* been left (normally or by an error) and once the object is disposed.
C7_TransportReleased ==
  (pc \in {"exited", "disposed"} /\ ser # "unset")
    => (ser = "closed" /\ closeCalls >= 1)

C7_Witness ==
  /\ pc = "exited"
  /\ exitCause = "error"
  /\ last.outcome = "SerialException"
  /\ ser = "closed"

\* C8: when the port cannot be opened, serial.Serial was called once, the
\* failure reached the caller of the constructor (as the SystemExit of
\* sys.exit), no operation ran, and nothing was written to, read from or
\* closed on the missing handle, also after __del__ ran.
C8_OpenFailureIsFatal ==
  (pc = "failed" \/ (pc = "disposed" /\ initRaised # "none"))
    => /\ openAttempts = 1
       /\ initRaised = "SystemExit"
       /\ ser = "unset"
       /\ nCalls = 0
       /\ last.io = <<>>
       /\ closeCalls = 0

C8_Witness ==
  /\ pc = "disposed"
  /\ initRaised = "SystemExit"
  /\ delRaised = "AttributeError"
  /\ closeCalls = 0

\* C9 (as stated): a message that starts with "++" and a known keyword is
\* written with that prefix as it is; every other message is written as
\* its escaped form followed by CR.
C9_ClassifiedByPrefix ==
  Wrote =>
    IF IsBridgeCommand(last.msg)
    THEN SubSeq(last.frame, 1, 2) = <<PLUS, PLUS>>
         /\ \E kw \in Keywords :
              SubSeq(last.frame, 3, Len(kw) + 2) = kw
    ELSE last.frame = Escape(last.msg) \o <<CR>>

\* C10 (as stated): write and set_address perform no read, a query writes
\* before its one read, and every byte a query returns was elicited by the
\* frame this same query wrote.
C10_OwnResponseOnly ==
  /\ IsSend => last.io \in {<<>>, <<"write">>}
  /\ IsQuery => last.io \in {<<>>, <<"write">>, <<"write", "readline">>}
  /\ IsQuery => last.tags \subseteq {last.id}

\* C10 (amended): write and set_address perform no read, a query writes
\* before its one read, and a query returns the oldest unconsumed response
\* bytes: they are the answer to its own frame when no response of an
\* earlier call was unconsumed at the call, and otherwise start with the
\* oldest byte left by an earlier call.
C10_OldestResponseFirst ==
  /\ IsSend => last.io \in {<<>>, <<"write">>}
  /\ IsQuery => last.io \in {<<>>, <<"write">>, <<"write", "readline">>}
  /\ (IsQuery /\ last.pre = <<>>) => last.tags \subseteq {last.id}
  /\ (IsQuery /\ last.pre # <<>> /\ last.tags # {})
       => last.pre[1].tag \in last.tags

C10_Witness ==
  /\ IsQuery
  /\ last.id >= 2
  /\ last.pre = <<>>
  /\ last.elicited = <<49, LF>>
  /\ last.result = <<49, LF>>
  /\ last.tags = {last.id}
  /\ last.io = <<"write", "readline">>

====
